---------------------------- MODULE Spec2Model ----------------------------
(***************************************************************************)
(* A model of the Wikipedia word-frequency service                         *)
(*   src/word_frequency_count.py  tokenizer, Counter pipeline, crawler     *)
(*   src/server_main.py           the threaded HTTP handlers               *)
(*                                                                         *)
(* Strings are sequences of one-character strings, so that the regular     *)
(* expression of get_word_frequency can be evaluated character by          *)
(* character.  A Counter / dict is a sequence of <<word, count>> pairs in  *)
(* insertion order (Python dicts keep insertion order).  A percentage is   *)
(* the exact fraction <<num, den>> = <<100 * count, total>>; for the       *)
(* totals and integer thresholds of this model the float comparison        *)
(* (count / total) * 100 >= percentile agrees with the exact one.          *)
(***************************************************************************)
EXTENDS Integers, Sequences, FiniteSets, TLC

VARIABLES
    linkBudget,      \* links the document source serves on all pages together
    pages,           \* what the document source has answered so far: doc -> reply
    pc,              \* per handler thread: "unused", "idle", "crawl", "respond", "done"
    request,         \* per handler thread: the parsed request
    visitedRef,      \* per handler thread: the local variable `visited` (an object id)
    wfRef,           \* per handler thread: the local variable `word_frequency` (an object id)
    stack,           \* per handler thread: the call stack of crawl_wikipedia_article
    visited,         \* heap of set objects: id -> set of articles
    word_frequency,  \* heap of Counter objects: id -> Counter
    fetched,         \* per handler thread: log of fetch_wikipedia_page calls
    merged,          \* per handler thread: log of word_frequency.update calls
    response,        \* per handler thread: what was sent to the client
    text,            \* input of a direct get_word_frequency call
    word_count,      \* its result: the list `words` and the Counter
    tokPc            \* "unused", "ready", "done"

vars == <<linkBudget, pages, pc, request, visitedRef, wfRef, stack, visited, word_frequency,
          fetched, merged, response, text, word_count, tokPc>>

crawlVars == <<linkBudget, pages, pc, request, visitedRef, wfRef, stack, visited,
               word_frequency, fetched, merged, response>>

tokVars == <<text, word_count, tokPc>>

----------------------------------------------------------------------------
(* Bounds *)

\* longest text handed to a direct get_word_frequency call
MaxLen == 4

\* largest depth a request asks for
MaxDepth == 3

\* number of links on all answered pages together
MaxTotalLinks == 4

\* the same, where the post-processing inputs vary
MaxPostLinks == 3

\* the same, where termination is checked
MaxCycleLinks == 2

\* the same, where two requests run concurrently
MaxConcLinks == 2

\* frames the interpreter allows before RecursionError
MaxStack == 8

----------------------------------------------------------------------------
(* Characters and strings *)

LowerLetters == {"a", "b", "c"}

UpperLetters == {"A", "B", "C"}

Digits == {"1", "2"}

\* str.lower() on one character
LowerChar(c) ==
    CASE c = "A" -> "a"
      [] c = "B" -> "b"
      [] c = "C" -> "c"
      [] OTHER -> c

\* str.lower(): no case folding at all (a plausible slip)
LowerNoFold(s) == s

\* text.lower()
Lower(s) == [i \in 1..Len(s) |-> LowerChar(s[i])]

\* the character class [a-zA-Z]
IsAlpha(c) == c \in LowerLetters \cup UpperLetters

\* the character class \w (letters, digits, underscore)
IsWordChar(c) == IsAlpha(c) \/ c \in Digits \/ c = "_"

\* whether position k of s holds a \w character (FALSE outside the string)
WordAt(s, k) == k \in 1..Len(s) /\ IsWordChar(s[k])

\* \b before position i: exactly one of s[i-1], s[i] is a \w character
Boundary(s, i) == WordAt(s, i - 1) # WordAt(s, i)

SetMax(S) == CHOOSE x \in S : \A y \in S : y <= x

\* the end positions (exclusive) of the matches of \b[a-zA-Z]+\b starting at i
MatchEnds(s, i) ==
    { j \in (i + 1)..(Len(s) + 1) :
        /\ Boundary(s, i)
        /\ \A k \in i..(j - 1) : IsAlpha(s[k])
        /\ Boundary(s, j) }

\* re.findall(r'\b[a-zA-Z]+\b', s) scanning from position i: leftmost match,
\* greedy, non-overlapping
RECURSIVE FindAll(_, _)
FindAll(s, i) ==
    IF i > Len(s) THEN <<>>
    ELSE IF MatchEnds(s, i) = {} THEN FindAll(s, i + 1)
    ELSE LET j == SetMax(MatchEnds(s, i))
         IN  <<SubSeq(s, i, j - 1)>> \o FindAll(s, j)

\* words = re.findall(r'\b[a-zA-Z]+\b', text.lower())
Words(t) == FindAll(Lower(t), 1)

----------------------------------------------------------------------------
(* Counter and dict, as sequences of <<key, count>> in insertion order *)

Keys(c) == { c[i][1] : i \in 1..Len(c) }

IndexOf(c, w) == CHOOSE i \in 1..Len(c) : c[i][1] = w

\* Counter.__getitem__: 0 for a missing key
Count(c, w) == IF w \in Keys(c) THEN c[IndexOf(c, w)][2] ELSE 0

\* self[elem] = self.get(elem, 0) + n
CounterAdd(c, w, n) ==
    IF w \in Keys(c)
    THEN [c EXCEPT ![IndexOf(c, w)] = <<w, @[2] + n>>]
    ELSE Append(c, <<w, n>>)

\* Counter(iterable): count the elements from left to right
RECURSIVE CounterOf(_)
CounterOf(ws) ==
    IF ws = <<>> THEN <<>>
    ELSE CounterAdd(CounterOf(SubSeq(ws, 1, Len(ws) - 1)), ws[Len(ws)], 1)

\* Counter.update(other): add other's counts key by key
RECURSIVE CounterUpdate(_, _)
CounterUpdate(c, other) ==
    IF other = <<>> THEN c
    ELSE CounterUpdate(CounterAdd(c, other[1][1], other[1][2]), Tail(other))

\* a deletion that only zeroes the count (a plausible slip)
CounterZero(c, w) ==
    IF w \in Keys(c) THEN [c EXCEPT ![IndexOf(c, w)] = <<w, 0>>] ELSE c

\* if w in c: del c[w]
CounterDel(c, w) ==
    LET keep == { i \in 1..Len(c) : c[i][1] # w }
        F[i \in 0..Len(c)] ==
            IF i = 0 THEN <<>>
            ELSE IF i \in keep THEN Append(F[i - 1], c[i]) ELSE F[i - 1]
    IN  F[Len(c)]

\* Counter.total()
RECURSIVE Total(_)
Total(c) == IF c = <<>> THEN 0 ELSE c[1][2] + Total(Tail(c))

\* get_word_frequency(text)
GetWordFrequency(t) == CounterOf(Words(t))


----------------------------------------------------------------------------
(* The post-processing stages *)

\* normalize_word_frequency: {word: (count, (count / total_count) * 100)};
\* the division raises ZeroDivisionError when an item exists and the total is 0
NormalizeWordFrequency(c) ==
    IF c # <<>> /\ Total(c) = 0
    THEN [error |-> "ZeroDivisionError", entries |-> <<>>]
    ELSE [error |-> "",
          entries |-> [i \in 1..Len(c) |->
                          <<c[i][1], c[i][2], <<100 * c[i][2], Total(c)>>>>]]

\* perc >= percentile, for perc = <<num, den>> with den > 0
PercAtLeast(perc, percentile) == perc[1] >= percentile * perc[2]

\* apply_percentile_threshold: keep the entries with perc >= percentile
ApplyPercentileThreshold(entries, percentile) ==
    LET keep(e) == PercAtLeast(e[3], percentile)
    IN  SelectSeq(entries, keep)

\* insert e behind every entry whose count is at least e's (stable)
RECURSIVE InsertByCount(_, _)
InsertByCount(sorted, e) ==
    IF sorted = <<>> THEN <<e>>
    ELSE IF sorted[1][2] >= e[2]
         THEN <<sorted[1]>> \o InsertByCount(Tail(sorted), e)
         ELSE <<e>> \o sorted

\* dict(sorted(items, key=count, reverse=True)): descending count, ties in
\* insertion order
RECURSIVE SortedByCount(_)
SortedByCount(entries) ==
    IF entries = <<>> THEN <<>>
    ELSE InsertByCount(SortedByCount(SubSeq(entries, 1, Len(entries) - 1)),
                       entries[Len(entries)])

\* [ignore_word.lower() for ignore_word in ignore_list]
LowerAll(ignore_list) == [i \in 1..Len(ignore_list) |-> Lower(ignore_list[i])]

\* for ignore_word in ignore_list: if ignore_word in c: del c[ignore_word]
RECURSIVE DeleteAll(_, _)
DeleteAll(c, ignore_list) ==
    IF ignore_list = <<>> THEN c
    ELSE DeleteAll(CounterDel(c, ignore_list[1]), Tail(ignore_list))

\* the stages in the order normalize, exclude, percentile filter, sort (the
\* order of the written design; not the handler's)
NormalizeThenExclude(c, ignore_list, percentile) ==
    LET ignore == { LowerAll(ignore_list)[i] : i \in 1..Len(ignore_list) }
        normalized == NormalizeWordFrequency(c)
        notIgnored(e) == e[1] \notin ignore
        retained == SelectSeq(normalized.entries, notIgnored)
    IN  [word_frequency |-> DeleteAll(c, LowerAll(ignore_list)),
         error |-> normalized.error,
         body |-> SortedByCount(ApplyPercentileThreshold(retained, percentile))]

\* do_POST after the crawl: delete the ignored words from the Counter,
\* normalize what is left, apply the threshold, sort
FilteredWordFrequency(c, ignore_list, percentile) ==
    LET filtered == DeleteAll(c, LowerAll(ignore_list))
        normalized == NormalizeWordFrequency(filtered)
    IN  [word_frequency |-> filtered,
         error |-> normalized.error,
         body |-> SortedByCount(
                      ApplyPercentileThreshold(normalized.entries, percentile))]

----------------------------------------------------------------------------
(* The document source *)

Docs == {"A", "B", "C", "D"}

Reqs == {1, 2}

\* soup.get_text() of each article; the text of a page does not change
PageText(d) ==
    CASE d = "A" -> <<"A", "b", " ", "b", ".">>
      [] d = "B" -> <<"b", " ", "c", "2", " ", "C">>
      [] d = "C" -> <<"a", "b", " ", "a", "b", "_">>
      [] OTHER   -> <<"c", " ", "1">>

RECURSIVE SumLinks(_)
SumLinks(S) ==
    IF S = {} THEN 0
    ELSE LET d == CHOOSE x \in S : TRUE
         IN  Len(pages[d].links) + SumLinks(S \ {d})

\* links on the pages answered so far
LinksUsed == SumLinks(DOMAIN pages)

LinkLists(n) == UNION { [1..k -> Docs] : k \in 0..n }

NotFound == [found |-> FALSE, links |-> <<>>]

\* fetch_wikipedia_page(article): (None, None) when the status is not 200,
\* else the text and the links.  The first fetch of an article decides its
\* reply; a later fetch of the same article gets the same reply.
FetchReplies(article) ==
    IF article \in DOMAIN pages THEN {pages[article]}
    ELSE {NotFound} \cup
         { [found |-> TRUE, links |-> l] : l \in LinkLists(linkBudget - LinksUsed) }

----------------------------------------------------------------------------
(* Depth values: a JSON integer, or a string *)

IntDepth(n) == [kind |-> "int", val |-> n]

\* a string of digits, such as "2"
StrDepth(n) == [kind |-> "str", val |-> n]

\* a string that is no number
WordDepth == [kind |-> "word", val |-> 0]

\* depth == 0: a str never equals 0
DepthIsZero(depth) == depth.kind = "int" /\ depth.val = 0

\* the recursive call handed the caller's own depth (a plausible slip)
DepthNotDecremented(depth) == depth

\* depth - 1 (an int; a str raises TypeError before this is used)
DepthMinusOne(depth) == IntDepth(depth.val - 1)

----------------------------------------------------------------------------
(* crawl_wikipedia_article, one frame per call *)

Frame(article, depth) ==
    [article |-> article, depth |-> depth, at |-> "enter", links |-> <<>>, idx |-> 1]

\* the first lines of the call with the set updated before the depth test
\* (a plausible slip)
CrawlEntryAddFirst(article, depth, v) ==
    IF article \in v THEN [proceed |-> FALSE, visited |-> v]
    ELSE IF DepthIsZero(depth) THEN [proceed |-> FALSE, visited |-> v \cup {article}]
    ELSE [proceed |-> TRUE, visited |-> v \cup {article}]

\* the first lines of the call without visited.add (a plausible slip)
CrawlEntryNoAdd(article, depth, v) ==
    IF DepthIsZero(depth) THEN [proceed |-> FALSE, visited |-> v]
    ELSE IF article \in v THEN [proceed |-> FALSE, visited |-> v]
    ELSE [proceed |-> TRUE, visited |-> v]

\* if depth == 0: return; if article in visited: return; visited.add(article)
CrawlEntry(article, depth, v) ==
    IF DepthIsZero(depth) THEN [proceed |-> FALSE, visited |-> v]
    ELSE IF article \in v THEN [proceed |-> FALSE, visited |-> v]
    ELSE [proceed |-> TRUE, visited |-> v \cup {article}]

\* the lines after the fetch without the None test: get_word_frequency(None)
\* raises (a plausible slip)
AfterFetchNoNoneTest(article, reply, c) ==
    IF ~reply.found
    THEN [proceed |-> FALSE, error |-> "AttributeError", word_frequency |-> c]
    ELSE [proceed |-> TRUE, error |-> "",
          word_frequency |-> CounterUpdate(c, GetWordFrequency(PageText(article)))]

\* if text is None: return; word_frequency.update(get_word_frequency(text))
AfterFetch(article, reply, c) ==
    IF ~reply.found
    THEN [proceed |-> FALSE, error |-> "", word_frequency |-> c]
    ELSE [proceed |-> TRUE, error |-> "",
          word_frequency |-> CounterUpdate(c, GetWordFrequency(PageText(article)))]

\* one object shared by every call (a plausible slip: a module-level or
\* class-level container)
NewRefShared(heap) == 1

\* set() / Counter(): a new object, distinct from every existing one
NewRef(heap) == Cardinality(DOMAIN heap) + 1

Visited(r) == visited[visitedRef[r]]

WordFrequency(r) == word_frequency[wfRef[r]]

NoResponse == [status |-> 0, error |-> "", body |-> <<>>]

\* the handler's `except Exception`: send_error(500)
Raise(r, err) ==
    /\ pc' = [pc EXCEPT ![r] = "done"]
    /\ stack' = [stack EXCEPT ![r] = <<>>]
    /\ response' = [response EXCEPT ![r] = [status |-> 500, error |-> err, body |-> <<>>]]

\* return from the innermost call; the outermost call returns to the handler
Return(r) ==
    /\ stack' = [stack EXCEPT ![r] = Tail(@)]
    /\ pc' = [pc EXCEPT ![r] = IF Len(stack[r]) = 1 THEN "respond" ELSE "crawl"]
    /\ UNCHANGED response

\* visited = set(); word_frequency = Counter(); crawl_wikipedia_article(...)
StartCrawl(r, article, depth) ==
    /\ visitedRef' = [visitedRef EXCEPT ![r] = NewRef(visited)]
    /\ wfRef' = [wfRef EXCEPT ![r] = NewRef(word_frequency)]
    /\ visited' = visited @@ (NewRef(visited) :> {})
    /\ word_frequency' = word_frequency @@ (NewRef(word_frequency) :> <<>>)
    /\ stack' = [stack EXCEPT ![r] = <<Frame(article, depth)>>]
    /\ pc' = [pc EXCEPT ![r] = "crawl"]
    /\ UNCHANGED response

\* lines 102-109 of crawl_wikipedia_article
CrawlEnter(r) ==
    /\ pc[r] = "crawl"
    /\ stack[r][1].at = "enter"
    /\ LET top == stack[r][1]
           e == CrawlEntry(top.article, top.depth, Visited(r))
       IN  /\ visited' = [visited EXCEPT ![visitedRef[r]] = e.visited]
           /\ IF e.proceed
              THEN /\ stack' = [stack EXCEPT ![r][1].at = "fetch"]
                   /\ UNCHANGED <<pc, response>>
              ELSE Return(r)
    /\ UNCHANGED <<linkBudget, pages, request, visitedRef, wfRef, word_frequency, fetched, merged>>
    /\ UNCHANGED tokVars

\* lines 112-121: fetch the page, stop on None, merge the page's counts
CrawlFetch(r) ==
    /\ pc[r] = "crawl"
    /\ stack[r][1].at = "fetch"
    /\ \E reply \in FetchReplies(stack[r][1].article) :
         LET top == stack[r][1]
             a == AfterFetch(top.article, reply, WordFrequency(r))
         IN  /\ pages' = IF top.article \in DOMAIN pages THEN pages
                         ELSE pages @@ (top.article :> reply)
             /\ fetched' = [fetched EXCEPT ![r] = Append(@, top.article)]
             /\ word_frequency' = [word_frequency EXCEPT ![wfRef[r]] = a.word_frequency]
             /\ IF a.error # ""
                THEN Raise(r, a.error) /\ UNCHANGED merged
                ELSE IF a.proceed
                THEN /\ merged' = [merged EXCEPT ![r] = Append(@, top.article)]
                     /\ stack' = [stack EXCEPT ![r][1] =
                                     [top EXCEPT !.at = "loop", !.links = reply.links]]
                     /\ UNCHANGED <<pc, response>>
                ELSE Return(r) /\ UNCHANGED merged
    /\ UNCHANGED <<linkBudget, request, visitedRef, wfRef, visited>>
    /\ UNCHANGED tokVars

\* lines 124-127: one iteration of the loop over the links, or its end
CrawlLoop(r) ==
    /\ pc[r] = "crawl"
    /\ stack[r][1].at = "loop"
    /\ LET top == stack[r][1]
       IN  IF top.idx > Len(top.links) THEN Return(r)
           ELSE IF top.links[top.idx] \in Visited(r)
           THEN /\ stack' = [stack EXCEPT ![r][1].idx = @ + 1]
                /\ UNCHANGED <<pc, response>>
           ELSE IF top.depth.kind # "int" THEN Raise(r, "TypeError")
           ELSE IF Len(stack[r]) >= MaxStack THEN Raise(r, "RecursionError")
           ELSE /\ stack' = [stack EXCEPT ![r] =
                                <<Frame(top.links[top.idx], DepthMinusOne(top.depth))>>
                                \o [@ EXCEPT ![1].idx = @ + 1]]
                /\ UNCHANGED <<pc, response>>
    /\ UNCHANGED <<linkBudget, pages, request, visitedRef, wfRef, visited, word_frequency,
                   fetched, merged>>
    /\ UNCHANGED tokVars

----------------------------------------------------------------------------
(* The handlers of WordCountRequestHandler *)

\* int(s) of the query string's depth: ValueError unless s is a number
IntOf(depth) ==
    IF depth.kind = "word" THEN [error |-> "ValueError", depth |-> depth]
    ELSE [error |-> "", depth |-> IntDepth(depth.val)]

BadRequest == [status |-> 400, error |-> "", body |-> <<>>]

\* do_GET up to the call of crawl_wikipedia_article
DoGetBegin(r) ==
    /\ pc[r] = "idle"
    /\ request[r].method = "GET"
    /\ LET depth == IntOf(request[r].depth)
       IN  IF depth.error # ""
           THEN /\ Raise(r, depth.error)
                /\ UNCHANGED <<visitedRef, wfRef, visited, word_frequency>>
           ELSE IF request[r].article = ""
           THEN /\ response' = [response EXCEPT ![r] = BadRequest]
                /\ pc' = [pc EXCEPT ![r] = "done"]
                /\ UNCHANGED <<visitedRef, wfRef, visited, word_frequency, stack>>
           ELSE StartCrawl(r, request[r].article, depth.depth)
    /\ UNCHANGED <<linkBudget, pages, request, fetched, merged>>
    /\ UNCHANGED tokVars

\* do_GET after the crawl: send 200 and the normalized table
DoGetFinish(r) ==
    /\ pc[r] = "respond"
    /\ request[r].method = "GET"
    /\ LET normalized == NormalizeWordFrequency(WordFrequency(r))
       IN  /\ pc' = [pc EXCEPT ![r] = "done"]
           /\ response' = [response EXCEPT ![r] =
                  IF normalized.error # ""
                  THEN [status |-> 500, error |-> normalized.error, body |-> <<>>]
                  ELSE [status |-> 200, error |-> "", body |-> normalized.entries]]
    /\ UNCHANGED <<linkBudget, pages, request, visitedRef, wfRef, stack, visited,
                   word_frequency, fetched, merged>>
    /\ UNCHANGED tokVars

\* do_POST up to the call of crawl_wikipedia_article
DoPostBegin(r) ==
    /\ pc[r] = "idle"
    /\ request[r].method = "POST"
    /\ IF request[r].article = ""
       THEN /\ response' = [response EXCEPT ![r] = BadRequest]
            /\ pc' = [pc EXCEPT ![r] = "done"]
            /\ UNCHANGED <<visitedRef, wfRef, visited, word_frequency, stack>>
       ELSE StartCrawl(r, request[r].article, request[r].depth)
    /\ UNCHANGED <<linkBudget, pages, request, fetched, merged>>
    /\ UNCHANGED tokVars

\* do_POST after the crawl: exclude, normalize, threshold, sort, send 200
DoPostFinish(r) ==
    /\ pc[r] = "respond"
    /\ request[r].method = "POST"
    /\ LET f == FilteredWordFrequency(WordFrequency(r), request[r].ignore_list,
                                      request[r].percentile)
       IN  /\ word_frequency' = [word_frequency EXCEPT ![wfRef[r]] = f.word_frequency]
           /\ pc' = [pc EXCEPT ![r] = "done"]
           /\ response' = [response EXCEPT ![r] =
                  IF f.error # ""
                  THEN [status |-> 500, error |-> f.error, body |-> <<>>]
                  ELSE [status |-> 200, error |-> "", body |-> f.body]]
    /\ UNCHANGED <<linkBudget, pages, request, visitedRef, wfRef, stack, visited, fetched, merged>>
    /\ UNCHANGED tokVars

----------------------------------------------------------------------------
(* The same code run from call to return, on objects of its own *)

RECURSIVE CrawlWikipediaArticle(_, _, _)
RECURSIVE CrawlLinks(_, _, _, _)

\* the loop over links[i..] of a call with this depth, from state st
CrawlLinks(links, i, depth, st) ==
    IF i > Len(links) \/ st.error # "" THEN st
    ELSE IF links[i] \in st.visited THEN CrawlLinks(links, i + 1, depth, st)
    ELSE IF depth.kind # "int" THEN [st EXCEPT !.error = "TypeError"]
    ELSE CrawlLinks(links, i + 1, depth,
                    CrawlWikipediaArticle(links[i], DepthMinusOne(depth), st))

\* crawl_wikipedia_article(article, depth, visited, word_frequency) run to
\* its return, on st = [visited, word_frequency, error]; an article whose
\* page the document source has not answered yet gives the error "unknown"
CrawlWikipediaArticle(article, depth, st) ==
    LET e == CrawlEntry(article, depth, st.visited)
        entered == [st EXCEPT !.visited = e.visited]
    IN  IF st.error # "" THEN st
        ELSE IF ~e.proceed THEN entered
        ELSE IF article \notin DOMAIN pages THEN [entered EXCEPT !.error = "unknown"]
        ELSE LET a == AfterFetch(article, pages[article], st.word_frequency)
                 counted == [entered EXCEPT !.word_frequency = a.word_frequency]
             IN  IF a.error # "" THEN [counted EXCEPT !.error = a.error]
                 ELSE IF ~a.proceed THEN counted
                 ELSE CrawlLinks(pages[article].links, 1, depth, counted)

\* do_GET or do_POST for request q run from its first line to its last, with
\* no other handler running: [visited, word_frequency, response]
HandlerAlone(q) ==
    LET depth == IF q.method = "GET" THEN IntOf(q.depth)
                 ELSE [error |-> "", depth |-> q.depth]
        st == CrawlWikipediaArticle(q.article, depth.depth,
                  [visited |-> {}, word_frequency |-> <<>>, error |-> ""])
        f == IF q.method = "GET"
             THEN [word_frequency |-> st.word_frequency,
                   error |-> NormalizeWordFrequency(st.word_frequency).error,
                   body |-> NormalizeWordFrequency(st.word_frequency).entries]
             ELSE FilteredWordFrequency(st.word_frequency, q.ignore_list, q.percentile)
    IN  IF depth.error # ""
        THEN [crawled |-> FALSE, visited |-> {}, word_frequency |-> <<>>,
              response |-> [status |-> 500, error |-> depth.error, body |-> <<>>]]
        ELSE IF q.article = ""
        THEN [crawled |-> FALSE, visited |-> {}, word_frequency |-> <<>>,
              response |-> BadRequest]
        ELSE IF st.error # ""
        THEN [crawled |-> TRUE, visited |-> st.visited,
              word_frequency |-> st.word_frequency,
              response |-> [status |-> 500, error |-> st.error, body |-> <<>>]]
        ELSE [crawled |-> TRUE, visited |-> st.visited,
              word_frequency |-> f.word_frequency,
              response |-> IF f.error # ""
                           THEN [status |-> 500, error |-> f.error, body |-> <<>>]
                           ELSE [status |-> 200, error |-> "", body |-> f.body]]

----------------------------------------------------------------------------
(* A direct call of get_word_frequency *)

Alphabet == {"a", "B", "1", "_", " "}

Texts == UNION { [1..k -> Alphabet] : k \in 0..MaxLen }

GetWordFrequencyCall ==
    /\ tokPc = "ready"
    /\ tokPc' = "done"
    /\ word_count' = [words |-> Words(text), counter |-> GetWordFrequency(text)]
    /\ UNCHANGED text
    /\ UNCHANGED crawlVars

----------------------------------------------------------------------------
(* Requests and specifications *)

\* depth values of a POST body: a JSON integer (also a negative one) or a
\* JSON string
PostDepths == {IntDepth(n) : n \in -1..MaxDepth} \cup {StrDepth(2)}

\* depth values of a GET query string: every value is a string
GetDepths == {StrDepth(n) : n \in -1..MaxDepth} \cup {WordDepth}

\* POST bodies without ignore_list and percentile: the handler's defaults
PostRequests ==
    [method : {"POST"}, article : {"", "A"}, depth : PostDepths,
     ignore_list : {<<>>}, percentile : {1}]

GetRequests ==
    [method : {"GET"}, article : {"", "A"}, depth : GetDepths,
     ignore_list : {<<>>}, percentile : {0}]

\* POST bodies with and without an ignore list and a threshold
FilterRequests ==
    [method : {"POST"}, article : {"", "A"},
     depth : {IntDepth(n) : n \in 0..MaxDepth},
     ignore_list : {<<>>, << <<"A", "b">>, <<"B">> >>},
     percentile : {1, 50}]

\* requests that arrive together
ConcRequests ==
    [method : {"POST"}, article : {"A", "B"}, depth : {IntDepth(2)},
     ignore_list : {<<>>}, percentile : {1}]
    \cup
    [method : {"GET"}, article : {"B"}, depth : {StrDepth(2)},
     ignore_list : {<<>>}, percentile : {0}]

NoRequest ==
    [method |-> "", article |-> "", depth |-> IntDepth(0),
     ignore_list |-> <<>>, percentile |-> 0]

InitCommon ==
    /\ pages = <<>>
    /\ visitedRef = [r \in Reqs |-> 0]
    /\ wfRef = [r \in Reqs |-> 0]
    /\ stack = [r \in Reqs |-> <<>>]
    /\ visited = <<>>
    /\ word_frequency = <<>>
    /\ fetched = [r \in Reqs |-> <<>>]
    /\ merged = [r \in Reqs |-> <<>>]
    /\ response = [r \in Reqs |-> NoResponse]

TokIdle ==
    /\ text = <<>>
    /\ word_count = [words |-> <<>>, counter |-> <<>>]
    /\ tokPc = "unused"

\* one request in flight, drawn from Q
OneRequest(Q) ==
    /\ InitCommon
    /\ TokIdle
    /\ pc = [r \in Reqs |-> IF r = 1 THEN "idle" ELSE "unused"]
    /\ \E q \in Q : request = [r \in Reqs |-> IF r = 1 THEN q ELSE NoRequest]

Init == OneRequest(PostRequests \cup GetRequests) /\ linkBudget = MaxTotalLinks

Next ==
    \E r \in Reqs :
        \/ DoGetBegin(r)
        \/ DoPostBegin(r)
        \/ CrawlEnter(r)
        \/ CrawlFetch(r)
        \/ CrawlLoop(r)
        \/ DoGetFinish(r)
        \/ DoPostFinish(r)

Spec == Init /\ [][Next]_vars

\* one request in flight, over a smaller link graph; a handler thread that
\* can take a step eventually takes it
InitFair == OneRequest(PostRequests \cup GetRequests) /\ linkBudget = MaxCycleLinks

FairSpec == InitFair /\ [][Next]_vars /\ WF_vars(Next)

\* one POST request in flight, its ignore list and threshold varying
InitPost == OneRequest(FilterRequests) /\ linkBudget = MaxPostLinks

NextPost ==
    \E r \in Reqs :
        \/ DoPostBegin(r)
        \/ CrawlEnter(r)
        \/ CrawlFetch(r)
        \/ CrawlLoop(r)
        \/ DoPostFinish(r)

SpecPost == InitPost /\ [][NextPost]_vars

\* two requests in flight, their handler threads interleaving step by step
InitConc ==
    /\ InitCommon
    /\ TokIdle
    /\ linkBudget = MaxConcLinks
    /\ pc = [r \in Reqs |-> "idle"]
    /\ request \in [Reqs -> ConcRequests]

SpecConc == InitConc /\ [][Next]_vars

\* a direct call of the tokenizer on every short text
InitTok ==
    /\ InitCommon
    /\ linkBudget = 0
    /\ pc = [r \in Reqs |-> "unused"]
    /\ request = [r \in Reqs |-> NoRequest]
    /\ text \in Texts
    /\ word_count = [words |-> <<>>, counter |-> <<>>]
    /\ tokPc = "ready"

NextTok == GetWordFrequencyCall

SpecTok == InitTok /\ [][NextTok]_vars

----------------------------------------------------------------------------
(* Vocabulary of the properties *)

Range(seq) == { seq[i] : i \in 1..Len(seq) }

NoDuplicates(seq) == \A i, j \in 1..Len(seq) : i # j => seq[i] # seq[j]

\* the handler has returned after running the crawl to its end
Finished(r) == pc[r] = "done" /\ visitedRef[r] # 0 /\ response[r].status = 200

\* the depth the handler hands to the crawl is a non-negative integer
ValidDepth(q) ==
    /\ q.depth.val >= 0
    /\ \/ q.method = "POST" /\ q.depth.kind = "int"
       \/ q.method = "GET" /\ q.depth.kind = "str"

AllFound == \A d \in DOMAIN pages : pages[d].found

\* the documents within k links of the documents in S, over the answered pages
RECURSIVE ReachWithin(_, _)
ReachWithin(S, k) ==
    IF k <= 0 THEN S
    ELSE ReachWithin(S \cup UNION { Range(pages[d].links) : d \in S \cap DOMAIN pages },
                     k - 1)

\* occurrences of word w in the token sequence ws
Occurrences(ws, w) == Cardinality({ i \in 1..Len(ws) : ws[i] = w })

\* occurrences of w in the texts of the documents of log (one term per entry)
RECURSIVE CorpusCount(_, _)
CorpusCount(log, w) ==
    IF log = <<>> THEN 0
    ELSE Occurrences(Words(PageText(log[1])), w) + CorpusCount(Tail(log), w)

\* all tokens of the texts of the documents of log
RECURSIVE CorpusTotal(_)
CorpusTotal(log) ==
    IF log = <<>> THEN 0
    ELSE Len(Words(PageText(log[1]))) + CorpusTotal(Tail(log))

CorpusWords(log) == UNION { Range(Words(PageText(d))) : d \in Range(log) }

IgnoredWords(q) == { Lower(q.ignore_list[i]) : i \in 1..Len(q.ignore_list) }

RECURSIVE SumCounts(_, _)
SumCounts(log, S) ==
    IF S = {} THEN 0
    ELSE LET w == CHOOSE x \in S : TRUE
         IN  CorpusCount(log, w) + SumCounts(log, S \ {w})

\* tokens of the crawled texts that are not in the ignore list
RetainedTotal(r) == SumCounts(merged[r], CorpusWords(merged[r]) \ IgnoredWords(request[r]))

----------------------------------------------------------------------------
(* C1: within one crawl no article is fetched twice and no article's counts
   are merged twice. *)
C1_FetchedAtMostOnce ==
    \A r \in Reqs : NoDuplicates(fetched[r]) /\ NoDuplicates(merged[r])

\* a finished crawl that met a link back to an article it had fetched before
C1_Witness ==
    \E r \in Reqs :
        /\ Finished(r)
        /\ \E i, j \in 1..Len(fetched[r]) :
             /\ i <= j
             /\ pages[fetched[r][j]].found
             /\ fetched[r][i] \in Range(pages[fetched[r][j]].links)
             /\ request[r].depth.val >= 3

----------------------------------------------------------------------------
(* C2: every crawl terminates: each handler reaches its end, the call stack
   never runs out (no RecursionError), and at the end every article of the
   visited set was put there by exactly one call.  This is stated for every
   depth the handler passes on: those >= 0 and the negative ones as well. *)
AllDone == \A r \in Reqs : pc[r] \in {"unused", "done"}

C2_Terminates ==
    /\ <>AllDone
    /\ [](\A r \in Reqs :
            /\ response[r].error # "RecursionError"
            /\ (pc[r] = "done" /\ visitedRef[r] # 0)
                  => Cardinality(Visited(r)) = Len(fetched[r]))

\* a finished crawl over a cycle: two fetched articles that link to each
\* other, or one that links to itself
C2_Witness ==
    \E r \in Reqs :
        /\ Finished(r)
        /\ ValidDepth(request[r])
        /\ \E a, b \in Range(merged[r]) :
             /\ b \in Range(pages[a].links)
             /\ a \in Range(pages[b].links)

----------------------------------------------------------------------------
(* C3: a call with depth 0, the root call or a call on a link, fetches
   nothing and leaves the visited set and the table as they were; a root
   crawl with depth 0 ends with both empty; an article that was not fetched
   is not in the visited set. *)
DepthZeroCall(r) ==
    /\ pc[r] = "crawl"
    /\ stack[r][1].at = "enter"
    /\ DepthIsZero(stack[r][1].depth)

C3_DepthZeroChangesNothing ==
    /\ [][\A r \in Reqs :
            (DepthZeroCall(r) /\ stack'[r] # stack[r])
               => /\ UNCHANGED <<visited, word_frequency, fetched, merged, pages>>
                  /\ stack'[r] = Tail(stack[r])]_vars
    /\ [](\A r \in Reqs :
            /\ (pc[r] \in {"respond", "done"} /\ visitedRef[r] # 0)
                  => Visited(r) = Range(fetched[r])
            /\ (Finished(r) /\ ValidDepth(request[r]) /\ request[r].depth.val = 0)
                  => /\ Visited(r) = {}
                     /\ WordFrequency(r) = <<>>
                     /\ fetched[r] = <<>>)

\* a finished crawl of depth 1 whose root links to another article: that
\* article was called with depth 0 and is not in the visited set
C3_Witness ==
    \E r \in Reqs :
        /\ Finished(r)
        /\ ValidDepth(request[r])
        /\ request[r].depth.val = 1
        /\ fetched[r] = <<"A">>
        /\ pages["A"].found
        /\ \E l \in Range(pages["A"].links) : l \notin Visited(r)

----------------------------------------------------------------------------
(* C4: a fetch that reports not-found leaves the article in the visited
   set and the table and the other logs as they were, follows no link of
   it, returns to the caller (whose remaining links are still crawled) and
   raises nothing; a crawl whose root is not found ends with an empty
   table and a normal response. *)
NotFoundFetch(r) ==
    /\ pc[r] = "crawl"
    /\ stack[r][1].at = "fetch"
    /\ fetched'[r] # fetched[r]
    /\ ~pages'[stack[r][1].article].found

C4_NotFoundPrunesBranch ==
    /\ [][\A r \in Reqs :
            NotFoundFetch(r)
               => /\ stack[r][1].article \in visited'[visitedRef[r]]
                  /\ UNCHANGED <<visited, word_frequency, merged>>
                  /\ stack'[r] = Tail(stack[r])
                  /\ response'[r].status # 500]_vars
    /\ [](\A r \in Reqs :
            /\ (pc[r] = "done" /\ visitedRef[r] # 0 /\ ValidDepth(request[r]))
                  => response[r].status = 200
            /\ (Finished(r) /\ ValidDepth(request[r]) /\ request[r].depth.val >= 2
                  /\ pages[request[r].article].found)
                  => Range(pages[request[r].article].links) \subseteq Visited(r)
            /\ (Finished(r) /\ request[r].article \in DOMAIN pages
                  /\ ~pages[request[r].article].found)
                  => /\ WordFrequency(r) = <<>>
                     /\ response[r].body = <<>>
                     /\ Visited(r) = {request[r].article})

\* a finished crawl in which a link of the root was not found and a later
\* link of the root was fetched and counted
C4_Witness ==
    \E r \in Reqs :
        /\ Finished(r)
        /\ ValidDepth(request[r])
        /\ Len(fetched[r]) >= 3
        /\ ~pages[fetched[r][2]].found
        /\ pages[fetched[r][3]].found
        /\ fetched[r][3] \in Range(merged[r])
        /\ fetched[r][3] \in Range(pages["A"].links)
        /\ fetched[r][2] \in Range(pages["A"].links)

----------------------------------------------------------------------------
(* C5 as claimed: the percentage of every word in a POST response is
   100 * count / (all tokens crawled, the ignored words included). *)
C5_PercentOfWholeCorpus ==
    \A r \in Reqs :
        (Finished(r) /\ request[r].method = "POST")
           => \A i \in 1..Len(response[r].body) :
                LET e == response[r].body[i]
                IN  e[3][1] * CorpusTotal(merged[r]) = 100 * e[2] * e[3][2]

(* C5 as amended: the handler excludes first and normalizes what is left:
   the response holds exactly the crawled words that are not ignored and
   whose share of the retained tokens, 100 * count / (tokens crawled that
   are not in the ignore list), reaches the threshold; each with its crawl
   count and that share; in descending order of count. *)
C5_PercentOfRetained ==
    \A r \in Reqs :
        (Finished(r) /\ request[r].method = "POST")
           => LET body == response[r].body
                  log == merged[r]
                  total == RetainedTotal(r)
                  expected ==
                      { w \in CorpusWords(log) \ IgnoredWords(request[r]) :
                          100 * CorpusCount(log, w) >= request[r].percentile * total }
              IN  /\ { body[i][1] : i \in 1..Len(body) } = expected
                  /\ Len(body) = Cardinality(expected)
                  /\ \A i \in 1..Len(body) :
                       /\ body[i][2] = CorpusCount(log, body[i][1])
                       /\ body[i][3][1] * total = 100 * body[i][2] * body[i][3][2]
                  /\ \A i, j \in 1..Len(body) : i < j => body[i][2] >= body[j][2]

\* a finished POST whose ignore list removed a crawled word and whose
\* response still holds a word
C5_Witness ==
    \E r \in Reqs :
        /\ Finished(r)
        /\ request[r].method = "POST"
        /\ response[r].body # <<>>
        /\ request[r].percentile = 50
        /\ IgnoredWords(request[r]) \cap CorpusWords(merged[r]) # {}

----------------------------------------------------------------------------
(* C6 as claimed: a request whose depth is negative or no integer never
   enters the crawl and fetches nothing. *)
InvalidDepth(q) == q.method # "" /\ ~ValidDepth(q)

C6_InvalidDepthRejected ==
    \A r \in Reqs :
        InvalidDepth(request[r])
           => /\ pc[r] \notin {"crawl", "respond"}
              /\ fetched[r] = <<>>

----------------------------------------------------------------------------
(* C7 as claimed: get_word_frequency finds the lowercase form of every
   maximal run of letters, in order. *)

\* the start positions of the maximal runs of letters of s
RunStarts(s) ==
    { i \in 1..Len(s) : IsAlpha(s[i]) /\ (i = 1 \/ ~IsAlpha(s[i - 1])) }

\* the last position of the maximal run of letters that starts at i
RunEnd(s, i) ==
    CHOOSE j \in i..Len(s) :
        /\ \A k \in i..j : IsAlpha(s[k])
        /\ (j = Len(s) \/ ~IsAlpha(s[j + 1]))

\* the runs that start in the set S, from left to right, in lowercase
RECURSIVE RunsFrom(_, _)
RunsFrom(s, S) ==
    IF S = {} THEN <<>>
    ELSE LET i == CHOOSE x \in S : \A y \in S : x <= y
             run == [k \in 1..(RunEnd(s, i) - i + 1) |-> LowerChar(s[i + k - 1])]
         IN  <<run>> \o RunsFrom(s, S \ {i})

C7_EveryAlphabeticRun ==
    tokPc = "done" => word_count.words = RunsFrom(text, RunStarts(text))

\* a maximal run of letters with a digit or an underscore next to it
TouchesWordChar(s, i) ==
    \/ (i > 1 /\ IsWordChar(s[i - 1]))
    \/ (RunEnd(s, i) < Len(s) /\ IsWordChar(s[RunEnd(s, i) + 1]))

(* C7 as amended: get_word_frequency finds, in order, the lowercase form of
   every maximal run of letters that has no digit and no underscore directly
   before or after it; a run next to a digit or an underscore yields no
   token; the Counter counts exactly these tokens. *)
C7_RunsBetweenNonWordChars ==
    tokPc = "done" =>
        LET runs == RunsFrom(text, { i \in RunStarts(text) : ~TouchesWordChar(text, i) })
        IN  /\ word_count.words = runs
            /\ Keys(word_count.counter) = Range(runs)
            /\ \A w \in Range(runs) :
                 Count(word_count.counter, w) = Occurrences(runs, w)

\* a text with an uppercase run that is a token and a run next to a digit
\* that is none
C7_Witness ==
    /\ tokPc = "done"
    /\ word_count.words = << <<"b">> >>
    /\ \E i \in RunStarts(text) : TouchesWordChar(text, i)
    /\ \E i \in 1..Len(text) : text[i] = "B"

----------------------------------------------------------------------------
(* C9: every key of every frequency table has a count of at least 1, the
   normalization never raises ZeroDivisionError, and a table whose total
   is 0 gives an empty mapping and a normal response. *)
C9_NoDivisionByZero ==
    /\ \A ref \in DOMAIN word_frequency :
         \A i \in 1..Len(word_frequency[ref]) : word_frequency[ref][i][2] >= 1
    /\ \A r \in Reqs :
         /\ response[r].error # "ZeroDivisionError"
         /\ (pc[r] = "done" /\ visitedRef[r] # 0 /\ Total(WordFrequency(r)) = 0)
               => /\ response[r].status = 200
                  /\ response[r].body = <<>>

\* a finished POST whose ignore list removed every crawled word
C9_Witness ==
    \E r \in Reqs :
        /\ Finished(r)
        /\ merged[r] # <<>>
        /\ WordFrequency(r) = <<>>
        /\ response[r].body = <<>>

----------------------------------------------------------------------------
(* C10 as claimed: with every document found and a depth d >= 1, the
   documents fetched are exactly those within d - 1 links of the root. *)
C10_FetchedIsReachable ==
    \A r \in Reqs :
        (Finished(r) /\ ValidDepth(request[r]) /\ request[r].depth.val >= 1 /\ AllFound)
           => Range(fetched[r]) =
                 ReachWithin({request[r].article}, request[r].depth.val - 1)

\* d - 1, but at most 1
AtMostOne(n) == IF n >= 1 THEN 1 ELSE n

(* C10 as amended: with every document found and a depth d >= 1, no
   document further than d - 1 links from the root is fetched, the root is
   fetched and, when d >= 2, every document the root links to; every
   fetched document is counted.  A document two or more links away may be
   left out although it is within d - 1 links: when the traversal first
   reaches a document over a longer path, it is marked visited with little
   depth left, and its links are not followed again over the shorter path;
   so the set fetched depends on the order of the links. *)
C10_FetchedWithinDepth ==
    \A r \in Reqs :
        (Finished(r) /\ ValidDepth(request[r]) /\ request[r].depth.val >= 1 /\ AllFound)
           => /\ Range(fetched[r]) \subseteq
                    ReachWithin({request[r].article}, request[r].depth.val - 1)
              /\ ReachWithin({request[r].article}, AtMostOne(request[r].depth.val - 1))
                    \subseteq Range(fetched[r])
              /\ merged[r] = fetched[r]

\* a finished crawl of depth 3 that fetched a document two links from the
\* root
C10_Witness ==
    \E r \in Reqs :
        /\ Finished(r)
        /\ ValidDepth(request[r])
        /\ request[r].depth.val = 3
        /\ AllFound
        /\ Range(fetched[r]) = ReachWithin({"A"}, 2)
        /\ ReachWithin({"A"}, 2) # ReachWithin({"A"}, 1)

----------------------------------------------------------------------------
(* C8: with two handler threads interleaving step by step, each request
   has a visited set and a frequency table of its own, and what each
   handler ends with (its response, its visited set, its table) is what the
   same request gives when its handler runs alone. *)
C8_RequestsAreIsolated ==
    /\ \A r, q \in Reqs :
         (r # q /\ visitedRef[r] # 0 /\ visitedRef[q] # 0)
            => visitedRef[r] # visitedRef[q] /\ wfRef[r] # wfRef[q]
    /\ \A r \in Reqs :
         pc[r] = "done"
            => LET alone == HandlerAlone(request[r])
               IN  /\ response[r] = alone.response
                   /\ alone.crawled = (visitedRef[r] # 0)
                   /\ alone.crawled
                         => /\ Visited(r) = alone.visited
                            /\ WordFrequency(r) = alone.word_frequency

\* the second handler started first and is in the middle of its crawl while
\* the first, started later, has finished; both fetched a common article
C8_Witness ==
    /\ visitedRef[2] = 1
    /\ visitedRef[1] = 2
    /\ Finished(1)
    /\ pc[2] = "crawl"
    /\ Len(stack[2]) >= 2
    /\ Range(fetched[1]) \cap Range(fetched[2]) # {}
    /\ Len(merged[1]) >= 2

============================================================================
